---- MODULE Spec2Model ----
(***************************************************************************)
(* LLMWrapper (spacy_llm/pipeline/llm.py): the batched cache-aside         *)
(* orchestration of _process_docs and the batch-isolating stream driver    *)
(* pipe.  One pipe call runs at a time; _process_docs is modelled step by  *)
(* step (pc) so that the order of task/backend pulls, cache writes and     *)
(* llm_io writes is visible.                                               *)
(***************************************************************************)
EXTENDS Integers, Sequences, FiniteSets, TLC

\* ---------------------------------------------------------------- bounds
MaxLen == 3            \* longest input stream of one pipe call
MaxBatch == 3          \* largest batch_size handed to pipe

Docs == {"A", "B"}     \* document identities (what the cache keys on)
Resp == {1, 2}         \* raw completions the backend can return
Name == "llm"          \* self._name
Self == "LLMWrapper"   \* the component instance handed to the error handler

VARIABLES
    cacheKeys,   \* identities for which `doc in self._cache` is True
    cacheVal,    \* identity -> <<doc>> returned by self._cache[doc], <<>> for None
    save_io,     \* self._save_io
    pc,          \* position of the running pipe call / _process_docs
    batch_size,  \* pipe's batch_size argument
    stream,      \* items pulled from the input stream so far (this call)
    ended,       \* the input stream is exhausted
    replay,      \* <<s>> when this call re-reads the previous stream s, else <<>>
    out,         \* items yielded by this pipe call
    batchLog,    \* finished batches of this call: [docs, ic, ok, final]
    failures,    \* exceptions that left _process_docs in this call: [batch, exc]
    handlerLog,  \* error handler invocations of this call, with what the handler did
    taskCalls,   \* calls to generate_prompts/backend/parse_responses in this call
    docs,        \* doc_batch / docs of the running _process_docs
    cache0,      \* identities the cache held when the batch was handed over
    is_cached,   \* line 167
    noncached,   \* noncached_doc_batch, line 168
    lazy,        \* task and backend return generators (TRUE) or lists (FALSE)
    genArg,      \* arguments handed to generate_prompts in this batch
    parseArg,    \* docs arguments handed to parse_responses in this batch
    nP,          \* prompts produced by generate_prompts so far
    resps,       \* raw completions produced by the backend so far
    nA,          \* annotated docs produced by parse_responses so far
    k,           \* annotated docs pulled by next(modified_docs)
    savedK,      \* items pulled from saved_prompts / saved_responses
    i,           \* loop index of line 185 (1-based)
    cur,         \* <<doc>> pulled at line 191 and not yet appended
    final_docs,  \* line 183
    lookups,     \* positions looked up with self._cache[doc] in this batch
    adds,        \* docs handed to self._cache.add in this batch
    y,           \* outputs of the batch already yielded
    exc,         \* <<e>> the exception in flight, else <<>>
    mode,        \* the entry point that is running: "pipe" or "call"
    ret,         \* <<doc>> returned by the last __call__, else <<>>
    contract,    \* <<dp, dr, da>>: by how many items the prompts, responses and
                 \* annotated docs of a batch deviate from one per miss
    ser          \* the serialization scenario (to_bytes/from_bytes, to_disk/from_disk)

cacheVars == <<cacheKeys, cacheVal, save_io>>
pipeVars == <<batch_size, stream, ended, replay, out, batchLog, failures, handlerLog,
              taskCalls>>
taskVars == <<lazy, genArg, parseArg, nP, resps, nA>>
loopVars == <<docs, cache0, is_cached, noncached, k, savedK, i, cur, final_docs, lookups, adds, y>>
vars == <<cacheKeys, cacheVal, save_io, pc, batch_size, stream, ended, replay, out,
          batchLog, failures, handlerLog, taskCalls, docs, cache0, is_cached, noncached, lazy,
          genArg,
          parseArg, nP, resps, nA, k, savedK, i, cur, final_docs, lookups, adds, y, exc,
          mode, ret, contract, ser>>
callVars == <<mode, ret>>
otherVars == <<contract, ser>>

\* ---------------------------------------------------------------- values
Min(a, b) == IF a < b THEN a ELSE b
SeqsUpTo(S, n) == UNION {[1..m -> S] : m \in 0..n}
Take(s, n) == SubSeq(s, 1, Min(n, Len(s)))
Drop(s, n) == SubSeq(s, n + 1, Len(s))

\* A Doc the component returns: identity, the annotation the task set, and
\* user_data["llm_io"][self._name] (<<>> when absent).
Doc(d, a) == [id |-> d, ann |-> a, io |-> <<>>]

\* PromptTask.generate_prompts: one prompt per doc, in order.
Prompt(d) == [of |-> d]
\* CompletionBackend: one response per prompt, in order; the completion r is
\* the backend's choice.
Response(p, r) == [to |-> p, val |-> r]
\* PromptTask.parse_responses: zips docs with responses and annotates.
Parse(d, r) == Doc(d, r.val)
\* str(): the textual form stored in llm_io.
Str(x) == <<"str", x>>

\* ---------------------------------------------------------------- cache
CacheContains(d) == d \in cacheKeys
CacheGet(d) == cacheVal[d]
CacheAddKeys(doc) == cacheKeys \cup {doc.id}
CacheAddVal(doc) == [cacheVal EXCEPT ![doc.id] = <<doc>>]

\* ---------------------------------------------------------------- _process_docs helpers
\* Bug variant of line 167: the cache is never consulted.
IsCached_Never(ds) == [j \in 1..Len(ds) |-> FALSE]

\* Bug variant of line 167: a doc whose identity occurred earlier in the batch
\* is taken for cached.
IsCached_Dedup(ds) ==
    [j \in 1..Len(ds) |-> CacheContains(ds[j]) \/ \E m \in 1..(j - 1) : ds[m] = ds[j]]

\* line 167
IsCached(ds) == [j \in 1..Len(ds) |-> CacheContains(ds[j])]

\* Bug variants of line 168: the misses collected back to front, and the
\* whole batch taken instead of the misses.
RECURSIVE NoncachedDocBatch_Reversed(_, _)
NoncachedDocBatch_Reversed(ds, ic) ==
    IF ds = <<>> THEN <<>>
    ELSE NoncachedDocBatch_Reversed(Tail(ds), Tail(ic))
             \o (IF ic[1] THEN <<>> ELSE <<ds[1]>>)

NoncachedDocBatch_All(ds, ic) == ds

\* line 168
RECURSIVE NoncachedDocBatch(_, _)
NoncachedDocBatch(ds, ic) ==
    IF ds = <<>> THEN <<>>
    ELSE (IF ic[1] THEN <<>> ELSE <<ds[1]>>) \o NoncachedDocBatch(Tail(ds), Tail(ic))

\* What a task and backend that deviate from one item per miss can deliver
\* for n misses: prompts, responses, annotated docs.
Max0(a) == IF a < 0 THEN 0 ELSE a
AvailP(n) == Max0(n + contract[1])
AvailR(n) == Max0(n + contract[2])
AvailA(n) == Max0(n + contract[3])
\* A surplus item belongs to no doc of the batch.
At(s, j) == IF j \in 1..Len(s) THEN s[j] ELSE "extra"

\* The lazy sequences of lines 171-181 as far as they have been produced.
Prompts == [j \in 1..nP |-> Prompt(At(genArg[1], j))]
Responses == [j \in 1..Len(resps) |-> Response(Prompt(At(genArg[1], j)), resps[j])]
ResponseAt(j) ==
    IF j \in 1..Len(resps) THEN Responses[j] ELSE Response(Prompt("extra"), 0)
ModifiedDocs == [j \in 1..nA |-> Parse(At(parseArg[1], j), ResponseAt(j))]

\* Bug variant of line 202: the retained responses are read from the start
\* for every doc.
SavedResponse_First(n) == Responses[1]

\* lines 197-202
SavedPrompt(n) == Prompts[n]
SavedResponse(n) == Responses[n]
WithIO(doc, n) ==
    [doc EXCEPT !.io = <<[prompt |-> Str(SavedPrompt(n)), response |-> Str(SavedResponse(n))]>>]

\* ---------------------------------------------------------------- initial state
\* A doc stored by an earlier run that still carries that run's llm_io record.
OldDoc(d) ==
    [Doc(d, 0) EXCEPT !.io = <<[prompt |-> Str(Prompt(d)),
                                response |-> Str(Response(Prompt(d), 0))]>>]

\* A constructed component (lines 108-113), no pipe call running.  The cache
\* is any cache over Docs: an identity is absent, stored, or reported present
\* although the lookup returns None.
InitWrapper ==
    /\ cacheKeys \in SUBSET Docs
    /\ cacheVal \in [Docs -> {<<>>} \cup {<<Doc(d, 0)>> : d \in Docs}
                                 \cup {<<OldDoc(d)>> : d \in Docs}]
    /\ \A d \in Docs : cacheVal[d] # <<>> => (d \in cacheKeys /\ cacheVal[d][1].id = d)
    /\ save_io \in BOOLEAN
    /\ pc = "idle"
    /\ batch_size = 1
    /\ stream = <<>> /\ ended = FALSE /\ replay = <<>>
    /\ out = <<>> /\ batchLog = <<>> /\ failures = <<>> /\ handlerLog = <<>>
    /\ taskCalls = 0
    /\ docs = <<>> /\ cache0 = {} /\ is_cached = <<>> /\ noncached = <<>>
    /\ lazy = FALSE /\ genArg = <<>> /\ parseArg = <<>>
    /\ nP = 0 /\ resps = <<>> /\ nA = 0
    /\ k = 0 /\ savedK = 0 /\ i = 1 /\ cur = <<>> /\ final_docs = <<>>
    /\ lookups = <<>> /\ adds = <<>> /\ y = 0 /\ exc = <<>>
    /\ mode = "pipe" /\ ret = <<>>
    /\ ser = <<>>

\* The task and backend keep their contract: one prompt, one response and one
\* annotated doc per miss.
Init == InitWrapper /\ contract = <<0, 0, 0>>

\* The state of _process_docs before a batch is handed to it.
ResetBatch ==
    /\ docs' = <<>> /\ cache0' = {} /\ is_cached' = <<>> /\ noncached' = <<>>
    /\ lazy' = FALSE /\ genArg' = <<>> /\ parseArg' = <<>>
    /\ nP' = 0 /\ resps' = <<>> /\ nA' = 0
    /\ k' = 0 /\ savedK' = 0 /\ i' = 1 /\ cur' = <<>> /\ final_docs' = <<>>
    /\ lookups' = <<>> /\ adds' = <<>> /\ y' = 0

\* ---------------------------------------------------------------- pipe
\* A caller starts pipe(stream, batch_size=bs) (line 145).  With again, the
\* caller hands in the stream of the call that has just completed.
PipeStart(bs, again) ==
    /\ pc \in {"idle", "done", "raised", "returned", "propagated"}
    /\ again => (pc = "done" /\ handlerLog = <<>>)
    /\ mode' = "pipe" /\ ret' = <<>>
    /\ UNCHANGED otherVars
    /\ batch_size' = bs
    /\ replay' = IF again THEN <<stream>> ELSE <<>>
    /\ stream' = <<>> /\ ended' = FALSE
    /\ out' = <<>> /\ batchLog' = <<>> /\ failures' = <<>> /\ handlerLog' = <<>>
    /\ taskCalls' = 0
    /\ pc' = "pull"
    /\ exc' = <<>>
    /\ UNCHANGED cacheVars
    /\ ResetBatch

\* spacy.util.minibatch (line 153): the next batch_size items of the stream.
NextBatches ==
    IF ended THEN {<<>>}
    ELSE IF replay # <<>> THEN {Take(Drop(replay[1], Len(stream)), batch_size)}
    ELSE SeqsUpTo(Docs, Min(batch_size, MaxLen - Len(stream)))

Pull ==
    /\ pc = "pull"
    /\ UNCHANGED <<callVars, otherVars>>
    /\ \E b \in NextBatches :
        /\ stream' = stream \o b
        /\ ended' = (Len(b) < batch_size)
        /\ docs' = b
        /\ cache0' = IF b = <<>> THEN {} ELSE cacheKeys
        /\ pc' = IF b = <<>> THEN "done" ELSE "process"
    /\ UNCHANGED cacheVars
    /\ UNCHANGED <<batch_size, replay, out, batchLog, failures, handlerLog, taskCalls>>
    /\ UNCHANGED <<taskVars, is_cached, noncached, k, savedK, i, cur, final_docs,
                   lookups, adds, y, exc>>

\* Bug variant: an exception in a single-item call is handed to the error
\* handler as in pipe.
Raise_ToHandler(e) ==
    /\ pc' = "except"
    /\ exc' = <<e>>
    /\ failures' = Append(failures, [batch |-> docs, exc |-> e])

\* An exception leaves _process_docs: in pipe it reaches the except clause
\* (line 156), in __call__ (line 127) nothing catches it.
Raise(e) ==
    /\ pc' = IF mode = "pipe" THEN "except" ELSE "propagated"
    /\ exc' = <<e>>
    /\ failures' = Append(failures, [batch |-> docs, exc |-> e])

\* lines 167-181 with task and backend returning generators: nothing is
\* produced until modified_docs is pulled.
SetupLazy(nc) ==
    /\ lazy' = TRUE
    /\ genArg' = <<nc>> /\ parseArg' = <<nc>>
    /\ taskCalls' = taskCalls + 3
    /\ UNCHANGED <<nP, resps, nA, exc, failures>>
    /\ pc' = "loop"

\* lines 167-181 with task and backend returning lists: every stage runs over
\* all misses inside its call, and may raise at any item.
SetupEager(nc) ==
    /\ lazy' = FALSE
    /\ genArg' = <<nc>>
    /\ \/ /\ \E rs \in [1..AvailR(Len(nc)) -> Resp] : resps' = rs
          /\ nP' = AvailP(Len(nc)) /\ nA' = AvailA(Len(nc))
          /\ parseArg' = <<nc>>
          /\ taskCalls' = taskCalls + 3
          /\ pc' = "loop" /\ UNCHANGED <<exc, failures>>
       \/ /\ \E j \in 1..Len(nc) : nP' = j - 1
          /\ resps' = <<>> /\ nA' = 0 /\ parseArg' = <<>>
          /\ taskCalls' = taskCalls + 1
          /\ Raise("PromptError")
       \/ /\ \E j \in 1..Len(nc) : \E rs \in [1..(j - 1) -> Resp] : resps' = rs
          /\ nP' = Len(nc) /\ nA' = 0 /\ parseArg' = <<>>
          /\ taskCalls' = taskCalls + 2
          /\ Raise("BackendError")
       \/ /\ \E j \in 1..Len(nc) : \E rs \in [1..Len(nc) -> Resp] :
                resps' = rs /\ nA' = j - 1
          /\ nP' = Len(nc) /\ parseArg' = <<nc>>
          /\ taskCalls' = taskCalls + 3
          /\ Raise("ParseError")

\* lines 167-181
ProcessDocs ==
    /\ pc = "process"
    /\ UNCHANGED <<callVars, otherVars>>
    /\ LET ic == IsCached(docs)
           nc == NoncachedDocBatch(docs, ic)
       IN  /\ is_cached' = ic
           /\ noncached' = nc
           /\ IF nc = <<>>
              THEN /\ pc' = "loop"
                   /\ UNCHANGED <<taskVars, taskCalls, exc, failures>>
              ELSE SetupLazy(nc) \/ SetupEager(nc)
    /\ UNCHANGED cacheVars
    /\ UNCHANGED <<batch_size, stream, ended, replay, out, batchLog, handlerLog>>
    /\ UNCHANGED <<docs, cache0, k, savedK, i, cur, final_docs, lookups, adds, y>>

\* Bug variant of lines 186-189: no check of the looked-up value; a lookup
\* that returns nothing yields the input doc.
LoopHit_NoAssert ==
    /\ pc = "loop" /\ i <= Len(docs) /\ is_cached[i]
    /\ UNCHANGED <<callVars, otherVars>>
    /\ lookups' = Append(lookups, i)
    /\ LET cached_doc == CacheGet(docs[i])
       IN  final_docs' = Append(final_docs,
                IF cached_doc = <<>> THEN Doc(docs[i], 0) ELSE cached_doc[1])
    /\ i' = i + 1
    /\ UNCHANGED <<pc, exc, failures>>
    /\ UNCHANGED cacheVars
    /\ UNCHANGED <<batch_size, stream, ended, replay, out, batchLog, handlerLog, taskCalls>>
    /\ UNCHANGED taskVars
    /\ UNCHANGED <<docs, cache0, is_cached, noncached, k, savedK, cur, adds, y>>

\* lines 186-189
LoopHit ==
    /\ pc = "loop" /\ i <= Len(docs) /\ is_cached[i]
    /\ UNCHANGED <<callVars, otherVars>>
    /\ lookups' = Append(lookups, i)
    /\ LET cached_doc == CacheGet(docs[i])
       IN  IF cached_doc = <<>>
           THEN Raise("AssertionError") /\ UNCHANGED <<final_docs, i>>
           ELSE /\ final_docs' = Append(final_docs, cached_doc[1])
                /\ i' = i + 1
                /\ UNCHANGED <<pc, exc, failures>>
    /\ UNCHANGED cacheVars
    /\ UNCHANGED <<batch_size, stream, ended, replay, out, batchLog, handlerLog, taskCalls>>
    /\ UNCHANGED taskVars
    /\ UNCHANGED <<docs, cache0, is_cached, noncached, k, savedK, cur, adds, y>>

\* Bug variant of line 191: when the annotated docs run out, the position is
\* skipped instead of raising.
LoopNext_SkipExhausted ==
    /\ pc = "loop" /\ i <= Len(docs) /\ ~is_cached[i]
    /\ UNCHANGED <<callVars, otherVars>>
    /\ IF nA > k
       THEN /\ cur' = <<ModifiedDocs[k + 1]>>
            /\ k' = k + 1
            /\ pc' = "add"
            /\ UNCHANGED <<nP, resps, nA, exc, failures, i>>
       ELSE IF ~lazy \/ k >= AvailA(Len(noncached))
       THEN /\ i' = i + 1
            /\ UNCHANGED <<nP, resps, nA, k, cur, pc, exc, failures>>
       ELSE /\ \E r \in Resp :
                    /\ resps' = IF Len(resps) < AvailR(Len(noncached))
                                THEN Append(resps, r) ELSE resps
                    /\ cur' = <<Parse(At(parseArg[1], k + 1),
                                      Response(Prompt(At(genArg[1], k + 1)), r))>>
            /\ nP' = Min(k + 1, AvailP(Len(noncached)))
            /\ nA' = k + 1 /\ k' = k + 1
            /\ pc' = "add" /\ UNCHANGED <<exc, failures, i>>
    /\ UNCHANGED cacheVars
    /\ UNCHANGED <<batch_size, stream, ended, replay, out, batchLog, handlerLog, taskCalls>>
    /\ UNCHANGED <<lazy, genArg, parseArg>>
    /\ UNCHANGED <<docs, cache0, is_cached, noncached, savedK, final_docs, lookups,
                   adds, y>>

\* line 191: next(modified_docs).  A generator chain produces the item now:
\* prompt, completion and annotation of the next miss, each of which may raise;
\* an exhausted iterator raises StopIteration.
LoopNext ==
    /\ pc = "loop" /\ i <= Len(docs) /\ ~is_cached[i]
    /\ UNCHANGED <<callVars, otherVars>>
    /\ IF nA > k
       THEN /\ cur' = <<ModifiedDocs[k + 1]>>
            /\ k' = k + 1
            /\ pc' = "add"
            /\ UNCHANGED <<nP, resps, nA, exc, failures>>
       ELSE IF ~lazy \/ k >= AvailA(Len(noncached))
       THEN /\ Raise("StopIteration")
            /\ UNCHANGED <<nP, resps, nA, k, cur>>
       ELSE \/ /\ \E r \in Resp :
                    /\ resps' = IF Len(resps) < AvailR(Len(noncached))
                                THEN Append(resps, r) ELSE resps
                    /\ cur' = <<Parse(At(parseArg[1], k + 1),
                                      Response(Prompt(At(genArg[1], k + 1)), r))>>
               /\ nP' = Min(k + 1, AvailP(Len(noncached)))
               /\ nA' = k + 1 /\ k' = k + 1
               /\ pc' = "add" /\ UNCHANGED <<exc, failures>>
            \/ /\ Raise("PromptError")
               /\ UNCHANGED <<nP, resps, nA, k, cur>>
            \/ /\ nP' = k + 1
               /\ Raise("BackendError")
               /\ UNCHANGED <<resps, nA, k, cur>>
            \/ /\ nP' = k + 1
               /\ \E r \in Resp : resps' = Append(resps, r)
               /\ Raise("ParseError")
               /\ UNCHANGED <<nA, k, cur>>
    /\ UNCHANGED cacheVars
    /\ UNCHANGED <<batch_size, stream, ended, replay, out, batchLog, handlerLog, taskCalls>>
    /\ UNCHANGED <<lazy, genArg, parseArg>>
    /\ UNCHANGED <<docs, cache0, is_cached, noncached, savedK, i, final_docs, lookups,
                   adds, y>>

\* Bug variant of lines 192-193: the annotated doc is appended but never
\* handed to the cache.
LoopAdd_NoCacheWrite ==
    /\ pc = "add"
    /\ UNCHANGED <<callVars, otherVars>>
    /\ final_docs' = Append(final_docs, cur[1])
    /\ IF save_io
       THEN pc' = "io" /\ UNCHANGED <<i, cur>>
       ELSE pc' = "loop" /\ i' = i + 1 /\ cur' = <<>>
    /\ UNCHANGED <<cacheVars, pipeVars, taskVars, exc, adds>>
    /\ UNCHANGED <<docs, cache0, is_cached, noncached, k, savedK, lookups, y>>

\* Bug variant of lines 192-202: the record is attached before the doc is
\* handed to the cache.
LoopAdd_RecordFirst ==
    /\ pc = "add"
    /\ UNCHANGED <<callVars, otherVars>>
    /\ LET doc == IF save_io THEN WithIO(cur[1], savedK + 1) ELSE cur[1]
       IN  /\ cacheKeys' = CacheAddKeys(doc)
           /\ cacheVal' = CacheAddVal(doc)
           /\ adds' = Append(adds, doc)
           /\ final_docs' = Append(final_docs, doc)
    /\ IF save_io
       THEN pc' = "io" /\ UNCHANGED <<i, cur>>
       ELSE pc' = "loop" /\ i' = i + 1 /\ cur' = <<>>
    /\ UNCHANGED <<save_io, pipeVars, taskVars, exc>>
    /\ UNCHANGED <<docs, cache0, is_cached, noncached, k, savedK, lookups, y>>

\* lines 192-193
LoopAdd ==
    /\ pc = "add"
    /\ UNCHANGED <<callVars, otherVars>>
    /\ cacheKeys' = CacheAddKeys(cur[1])
    /\ cacheVal' = CacheAddVal(cur[1])
    /\ adds' = Append(adds, cur[1])
    /\ final_docs' = Append(final_docs, cur[1])
    /\ IF save_io
       THEN pc' = "io" /\ UNCHANGED <<i, cur>>
       ELSE pc' = "loop" /\ i' = i + 1 /\ cur' = <<>>
    /\ UNCHANGED <<save_io, pipeVars, taskVars, exc>>
    /\ UNCHANGED <<docs, cache0, is_cached, noncached, k, savedK, lookups, y>>

\* Bug variant of lines 201-202: the retained copies are read without being
\* advanced.
LoopSaveIO_Peek ==
    /\ pc = "io"
    /\ UNCHANGED <<callVars, otherVars>>
    /\ final_docs' = [final_docs EXCEPT ![i] = WithIO(@, savedK + 1)]
    /\ i' = i + 1 /\ cur' = <<>>
    /\ pc' = "loop"
    /\ UNCHANGED cacheVars
    /\ UNCHANGED <<pipeVars, taskVars, exc>>
    /\ UNCHANGED <<docs, cache0, is_cached, noncached, k, savedK, lookups, adds, y>>

\* lines 195-202: the doc just appended is the object that gets the record;
\* a retained copy that has no further item raises StopIteration.
LoopSaveIO ==
    /\ pc = "io"
    /\ UNCHANGED <<callVars, otherVars>>
    /\ IF savedK + 1 > Min(nP, Len(resps))
       THEN /\ Raise("StopIteration")
            /\ UNCHANGED <<final_docs, savedK, i, cur>>
       ELSE /\ final_docs' = [final_docs EXCEPT ![i] = WithIO(@, savedK + 1)]
            /\ savedK' = savedK + 1
            /\ i' = i + 1 /\ cur' = <<>>
            /\ pc' = "loop"
            /\ UNCHANGED <<exc, failures>>
    /\ UNCHANGED cacheVars
    /\ UNCHANGED <<batch_size, stream, ended, replay, out, batchLog, handlerLog, taskCalls>>
    /\ UNCHANGED taskVars
    /\ UNCHANGED <<docs, cache0, is_cached, noncached, k, lookups, adds, y>>

\* line 204 and the start of `yield from` (line 155)
Return ==
    /\ pc = "loop" /\ i > Len(docs)
    /\ mode = "pipe"
    /\ pc' = "yield"
    /\ UNCHANGED <<callVars, otherVars>>
    /\ UNCHANGED cacheVars
    /\ UNCHANGED <<pipeVars, taskVars, loopVars, exc>>

\* Bug variant of line 155: the next batch is asked for after the first
\* output of a batch, whatever is left of the batch.
Yield_EarlyPull ==
    /\ pc = "yield"
    /\ UNCHANGED <<callVars, otherVars>>
    /\ out' = Append(out, final_docs[y + 1])
    /\ batchLog' = Append(batchLog, [docs |-> docs, ic |-> is_cached, ok |-> TRUE,
                                     final |-> final_docs])
    /\ pc' = "pull"
    /\ ResetBatch
    /\ UNCHANGED taskCalls
    /\ UNCHANGED cacheVars
    /\ UNCHANGED <<batch_size, stream, ended, replay, failures, handlerLog, exc>>

\* line 155: one item is handed to the consumer; after the last one the
\* loop of line 153 asks for the next batch.
Yield ==
    /\ pc = "yield"
    /\ UNCHANGED <<callVars, otherVars>>
    /\ out' = Append(out, final_docs[y + 1])
    /\ IF y + 1 = Len(final_docs)
       THEN /\ batchLog' = Append(batchLog, [docs |-> docs, ic |-> is_cached, ok |-> TRUE,
                                             final |-> final_docs])
            /\ pc' = "pull"
            /\ ResetBatch
            /\ UNCHANGED taskCalls
       ELSE /\ y' = y + 1
            /\ UNCHANGED <<pc, batchLog, taskCalls, taskVars>>
            /\ UNCHANGED <<docs, cache0, is_cached, noncached, k, savedK, i, cur,
                           final_docs, lookups, adds>>
    /\ UNCHANGED cacheVars
    /\ UNCHANGED <<batch_size, stream, ended, replay, failures, handlerLog, exc>>

\* Bug variants of lines 156-157.  The docs already collected for the failing
\* batch are yielded; the handler is given the items pulled so far instead of
\* the failing batch; an exception raised by the handler is swallowed.
HandlerWith(batchArg, yielded, swallow) ==
    /\ pc = "except"
    /\ UNCHANGED <<callVars, otherVars>>
    /\ \E suppress \in BOOLEAN :
        /\ handlerLog' = Append(handlerLog,
                [name |-> Name, comp |-> Self, batch |-> batchArg, exc |-> exc[1],
                 reraised |-> ~suppress])
        /\ pc' = IF suppress \/ swallow THEN "pull" ELSE "raised"
    /\ batchLog' = Append(batchLog, [docs |-> docs, ic |-> is_cached, ok |-> FALSE,
                                     final |-> <<>>])
    /\ out' = out \o yielded
    /\ exc' = <<>>
    /\ ResetBatch
    /\ UNCHANGED cacheVars
    /\ UNCHANGED <<batch_size, stream, ended, replay, failures, taskCalls>>

Handler_PartialYield == HandlerWith(docs, final_docs, FALSE)
Handler_WrongBatch == HandlerWith(stream, <<>>, FALSE)
Handler_Swallow == HandlerWith(docs, <<>>, TRUE)

\* Bug variant of lines 156-157: the cache writes of the failing batch are
\* undone before the handler is called.
Handler_Rollback ==
    /\ pc = "except"
    /\ UNCHANGED <<callVars, otherVars>>
    /\ \E suppress \in BOOLEAN :
        /\ handlerLog' = Append(handlerLog,
                [name |-> Name, comp |-> Self, batch |-> docs, exc |-> exc[1],
                 reraised |-> ~suppress])
        /\ pc' = IF suppress THEN "pull" ELSE "raised"
    /\ batchLog' = Append(batchLog, [docs |-> docs, ic |-> is_cached, ok |-> FALSE,
                                     final |-> <<>>])
    /\ exc' = <<>>
    /\ ResetBatch
    /\ cacheKeys' = cache0
    /\ cacheVal' = [d \in Docs |-> IF d \in cache0 THEN cacheVal[d] ELSE <<>>]
    /\ UNCHANGED save_io
    /\ UNCHANGED <<batch_size, stream, ended, replay, out, failures, taskCalls>>

\* Bug variant of lines 153-157: after the handler has returned, the failed
\* batch is put back in front of the stream.
Handler_Retry ==
    /\ pc = "except"
    /\ UNCHANGED <<callVars, otherVars>>
    /\ \E suppress \in BOOLEAN :
        /\ handlerLog' = Append(handlerLog,
                [name |-> Name, comp |-> Self, batch |-> docs, exc |-> exc[1],
                 reraised |-> ~suppress])
        /\ pc' = IF suppress THEN "pull" ELSE "raised"
        /\ stream' = IF suppress THEN Take(stream, Len(stream) - Len(docs)) ELSE stream
        /\ ended' = IF suppress THEN FALSE ELSE ended
    /\ batchLog' = Append(batchLog, [docs |-> docs, ic |-> is_cached, ok |-> FALSE,
                                     final |-> <<>>])
    /\ exc' = <<>>
    /\ ResetBatch
    /\ UNCHANGED cacheVars
    /\ UNCHANGED <<batch_size, replay, out, failures, taskCalls>>

\* lines 156-157: the handler gets (name, self, doc_batch, e); it returns
\* (the loop goes on) or raises (the generator dies).
Handler ==
    /\ pc = "except"
    /\ UNCHANGED <<callVars, otherVars>>
    /\ \E suppress \in BOOLEAN :
        /\ handlerLog' = Append(handlerLog,
                [name |-> Name, comp |-> Self, batch |-> docs, exc |-> exc[1],
                 reraised |-> ~suppress])
        /\ pc' = IF suppress THEN "pull" ELSE "raised"
    /\ batchLog' = Append(batchLog, [docs |-> docs, ic |-> is_cached, ok |-> FALSE,
                                     final |-> <<>>])
    /\ exc' = <<>>
    /\ ResetBatch
    /\ UNCHANGED cacheVars
    /\ UNCHANGED <<batch_size, stream, ended, replay, out, failures, taskCalls>>

\* __call__ (lines 121-127): the doc is processed as a batch of one.
CallStart(d) ==
    /\ pc \in {"idle", "done", "raised", "returned", "propagated"}
    /\ mode' = "call" /\ ret' = <<>>
    /\ docs' = <<d>>
    /\ cache0' = cacheKeys
    /\ pc' = "process"
    /\ exc' = <<>>
    /\ stream' = <<>> /\ ended' = FALSE /\ replay' = <<>>
    /\ out' = <<>> /\ batchLog' = <<>> /\ failures' = <<>> /\ handlerLog' = <<>>
    /\ taskCalls' = 0
    /\ is_cached' = <<>> /\ noncached' = <<>>
    /\ lazy' = FALSE /\ genArg' = <<>> /\ parseArg' = <<>>
    /\ nP' = 0 /\ resps' = <<>> /\ nA' = 0
    /\ k' = 0 /\ savedK' = 0 /\ i' = 1 /\ cur' = <<>> /\ final_docs' = <<>>
    /\ lookups' = <<>> /\ adds' = <<>> /\ y' = 0
    /\ UNCHANGED <<cacheVars, batch_size, otherVars>>

\* lines 127-129: _process_docs has returned its list; docs[0] is returned.
CallReturn ==
    /\ pc = "loop" /\ i > Len(docs)
    /\ mode = "call"
    /\ ret' = <<final_docs[1]>>
    /\ pc' = "returned"
    /\ UNCHANGED <<cacheVars, pipeVars, taskVars, loopVars, exc, mode, otherVars>>

Next ==
    \/ \E bs \in 1..MaxBatch : \E again \in BOOLEAN : PipeStart(bs, again)
    \/ Pull
    \/ ProcessDocs
    \/ LoopHit
    \/ LoopNext
    \/ LoopAdd
    \/ LoopSaveIO
    \/ Return
    \/ Yield
    \/ Handler

Spec == Init /\ [][Next]_vars

\* The component with both entry points, pipe and __call__.
NextCall ==
    \/ Next
    \/ \E d \in Docs : CallStart(d)
    \/ CallReturn

SpecCall == Init /\ [][NextCall]_vars

\* ---------------------------------------------------------------- serialization
\* The component of this model is the instance that is restored; ser holds
\* <<scenario>>: the instance that is serialized, what was written, and the
\* task and backend of the restored instance.
Subs == {"task", "backend"}       \* the segment names of lines 219-222
Fields == {"cfg", "examples"}     \* field names a sub-component serializes under
FieldVal == {1, 2}                \* states a field can be in
Fresh == [f \in Fields |-> 0]     \* a sub-component as constructed from the config
ExcludeNames == Subs \cup Fields
wrapperVars == <<cacheVars, pc, pipeVars, taskVars, loopVars, exc, callVars, contract>>

\* Bug variant of lines 219-222: no capability check.
Segments_Always(cap) == Subs

\* lines 219-222, 241-244, 259-262, 277-280: a segment for each sub-component
\* that is Serializable.
Segments(cap) == {sub \in Subs : cap[sub]}

\* A sub-component's own to_bytes/to_disk and from_bytes/from_disk, given the
\* exclude handed on to it: one that honors it leaves out (and on loading
\* skips) its fields named there.
SubDump(st, E, honors) == [f \in (IF honors THEN Fields \ E ELSE Fields) |-> st[f]]
SubLoad(st, data, E, honors) ==
    [f \in Fields |-> IF f \in DOMAIN data /\ ~(honors /\ f \in E) THEN data[f] ELSE st[f]]

\* srsly.msgpack_dumps / msgpack_loads inside util.to_bytes / util.from_bytes.
Pack(msg) == <<"msgpack", msg>>
Unpack(b) == b[2]

\* util.to_bytes (line 224) and util.to_disk (line 264): the getter of every
\* key not in exclude is called.
Dumped(sc) == [sub \in Segments(sc.cap) \ sc.E |-> SubDump(sc.src[sub], sc.E, sc.honors)]

\* util.from_bytes (line 246): the setter of every key not in exclude that
\* the message holds is called.
RestoredFromMsg(sc, msg) ==
    [sub \in Subs |->
        IF sub \in Segments(sc.cap) /\ sub \notin sc.E /\ sub \in DOMAIN msg
        THEN SubLoad(sc.dst[sub], msg[sub], sc.E, sc.honors)
        ELSE sc.dst[sub]]

\* util.from_disk (line 282): the reader of every key not in exclude is
\* called, whether or not the path holds it.
ReadKeys(sc) == Segments(sc.cap) \ sc.E
RestoredFromDisk(sc, files) ==
    [sub \in Subs |->
        IF sub \in ReadKeys(sc) /\ sub \in DOMAIN files
        THEN SubLoad(sc.dst[sub], files[sub], sc.E, sc.honors)
        ELSE sc.dst[sub]]

\* Two instances are constructed from the same config; the first one has
\* been used, so its task and backend hold state.
SerStart(medium, E, cap, honors, src) ==
    /\ pc = "idle"
    /\ ser = <<>>
    /\ ser' = <<[phase |-> "made", medium |-> medium, E |-> E, cap |-> cap,
                 honors |-> honors, src |-> src,
                 dst |-> [sub \in Subs |-> Fresh],
                 store |-> <<>>, err |-> FALSE]>>
    /\ UNCHANGED wrapperVars

\* A getter or setter called on a sub-component without the capability
\* raises (AttributeError).
Uncapable(sc, keys) == \E sub \in keys : ~sc.cap[sub]

\* to_bytes (lines 206-224)
ToBytes ==
    /\ ser # <<>> /\ ser[1].phase = "made" /\ ser[1].medium = "bytes"
    /\ LET sc == ser[1]
       IN  ser' = <<[sc EXCEPT !.phase = "dumped",
                               !.store = <<Pack(Dumped(sc))>>,
                               !.err = Uncapable(sc, Segments(sc.cap) \ sc.E)]>>
    /\ UNCHANGED wrapperVars

\* from_bytes (lines 226-247)
FromBytes ==
    /\ ser # <<>> /\ ser[1].phase = "dumped" /\ ser[1].medium = "bytes"
    /\ ~ser[1].err
    /\ LET sc == ser[1]
           msg == Unpack(sc.store[1])
       IN  ser' = <<[sc EXCEPT !.phase = "loaded",
                               !.dst = RestoredFromMsg(sc, msg),
                               !.err = Uncapable(sc, (Segments(sc.cap) \ sc.E)
                                                         \cap DOMAIN msg)]>>
    /\ UNCHANGED wrapperVars

\* to_disk (lines 249-264)
ToDisk ==
    /\ ser # <<>> /\ ser[1].phase = "made" /\ ser[1].medium = "disk"
    /\ LET sc == ser[1]
       IN  ser' = <<[sc EXCEPT !.phase = "dumped",
                               !.store = <<Dumped(sc)>>,
                               !.err = Uncapable(sc, Segments(sc.cap) \ sc.E)]>>
    /\ UNCHANGED wrapperVars

\* from_disk (lines 266-283): a reader whose path was not written raises.
FromDisk ==
    /\ ser # <<>> /\ ser[1].phase = "dumped" /\ ser[1].medium = "disk"
    /\ ~ser[1].err
    /\ LET sc == ser[1]
           files == sc.store[1]
       IN  ser' = <<[sc EXCEPT !.phase = "loaded",
                               !.dst = RestoredFromDisk(sc, files),
                               !.err = \/ Uncapable(sc, ReadKeys(sc))
                                       \/ \E sub \in ReadKeys(sc) : sub \notin DOMAIN files]>>
    /\ UNCHANGED wrapperVars

NextSer ==
    \/ /\ ser = <<>>
       /\ \E medium \in {"bytes", "disk"} : \E E \in SUBSET ExcludeNames :
          \E cap \in [Subs -> BOOLEAN] : \E honors \in BOOLEAN :
          \E src \in [Subs -> [Fields -> FieldVal]] :
              SerStart(medium, E, cap, honors, src)
    \/ ToBytes
    \/ FromBytes
    \/ ToDisk
    \/ FromDisk

SpecSer == Init /\ [][NextSer]_vars

\* ---------------------------------------------------------------- broken contract
\* A task and backend that may deliver one item fewer or one more than there
\* are misses, at one of the three stages; one pipe call over such a pair.
Breaches == {d \in [1..3 -> {-1, 0, 1}] : Cardinality({st \in 1..3 : d[st] # 0}) <= 1}
InitBreach == InitWrapper /\ contract \in Breaches

NextBreach ==
    \/ /\ pc = "idle"
       /\ \E bs \in 1..MaxBatch : PipeStart(bs, FALSE)
    \/ Pull
    \/ ProcessDocs
    \/ LoopHit
    \/ LoopNext
    \/ LoopAdd
    \/ LoopSaveIO
    \/ Return
    \/ Yield
    \/ Handler

SpecBreach == InitBreach /\ [][NextBreach]_vars

\* A running pipe call goes on: the interpreter executes the generator, the
\* consumer keeps asking for items, and task, backend and handler return.
\* Starting a new call is left to the caller.
PipeStep ==
    \/ Pull
    \/ ProcessDocs
    \/ LoopHit
    \/ LoopNext
    \/ LoopAdd
    \/ LoopSaveIO
    \/ Return
    \/ Yield
    \/ Handler

\* A pipe call on a constructed component, and calls that read the stream of
\* a completed call again.
NextFair ==
    \/ /\ pc = "idle"
       /\ \E bs \in 1..MaxBatch : PipeStart(bs, FALSE)
    \/ \E bs \in 1..MaxBatch : PipeStart(bs, TRUE)
    \/ PipeStep

\* The llm_io records a cached doc may carry from earlier runs are never read
\* by pipe or _process_docs; the caches here hold docs without one.
InitFair == Init /\ \A d \in Docs : cacheVal[d] # <<OldDoc(d)>>

SpecFair == InitFair /\ [][NextFair]_vars /\ WF_vars(PipeStep)

\* ---------------------------------------------------------------- properties
\* What the claims speak about, computed from the batch and the cache as it
\* was when the batch was handed over (not from the code's own is_cached).
InPass == pc \in {"loop", "add", "io", "yield"}
Hit(j) == docs[j] \in cache0
MissRank(j) == Cardinality({m \in 1..j : ~Hit(m)})
HitRank(j) == Cardinality({m \in 1..j : Hit(m)})
NumMiss == MissRank(Len(docs))
NumHit == HitRank(Len(docs))
MissSeq == [m \in 1..NumMiss |-> docs[CHOOSE j \in 1..Len(docs) : ~Hit(j) /\ MissRank(j) = m]]
HitPositions == [h \in 1..NumHit |-> CHOOSE j \in 1..Len(docs) : Hit(j) /\ HitRank(j) = h]
Strip(doc) == [doc EXCEPT !.io = <<>>]

\* C1: a returned batch has the length of the input batch, and position by
\* position the identity of the input: the cached value at a hit, at a miss
\* the input annotated from the completion of its own prompt.
C1_OrderPreserved ==
    pc = "yield" =>
        /\ Len(final_docs) = Len(docs)
        /\ \A j \in 1..Len(docs) :
            /\ j <= Len(final_docs)
            /\ final_docs[j].id = docs[j]
            /\ IF Hit(j)
               THEN cacheVal[docs[j]] = <<final_docs[j]>>
               ELSE /\ MissRank(j) <= Len(resps)
                    /\ Strip(final_docs[j]) =
                           Parse(docs[j], Response(Prompt(docs[j]), resps[MissRank(j)]))

C1_Witness ==
    /\ pc = "yield"
    /\ Len(docs) = 2
    /\ ~Hit(1) /\ Hit(2)
    /\ docs[1] # docs[2]

\* C2: in a pass that returns, every hit is looked up exactly once and causes
\* no task/backend work and no cache write; every miss passes each of
\* generate_prompts, backend and parse_responses exactly once and is written
\* to the cache exactly once.  While the pass runs no stage is ahead of the
\* number of misses.
C2_ExactlyOnce ==
    /\ InPass =>
        /\ Len(adds) <= k /\ k <= nA /\ nA <= Len(resps)
        /\ Len(resps) <= nP /\ nP <= NumMiss
        /\ Len(lookups) <= NumHit
        /\ Len(genArg) <= 1 /\ Len(parseArg) <= 1
    /\ pc = "yield" =>
        /\ lookups = HitPositions
        /\ Len(adds) = NumMiss
        /\ nP = NumMiss /\ Len(resps) = NumMiss /\ nA = NumMiss /\ k = NumMiss
        /\ \A m \in 1..NumMiss :
            /\ m <= Len(adds)
            /\ adds[m] = Parse(MissSeq[m], Response(Prompt(MissSeq[m]), resps[m]))
        /\ \A j \in 1..Len(docs) : Hit(j) => \A m \in 1..Len(adds) : adds[m].id # docs[j]

C2_Witness ==
    /\ pc = "yield"
    /\ Len(docs) = 2
    /\ Hit(1) /\ ~Hit(2)
    /\ Len(lookups) = 1 /\ Len(adds) = 1

\* C3: generate_prompts and parse_responses are handed exactly the misses of
\* the batch in their original order, the backend produces completions for
\* the prompts of those misses only, and a batch without misses calls none
\* of the three.
BatchesWithMisses ==
    Cardinality({b \in 1..Len(batchLog) :
                    \E j \in 1..Len(batchLog[b].ic) : ~batchLog[b].ic[j]})
        + (IF pc \in {"loop", "add", "io", "yield", "except"} /\ NumMiss > 0 THEN 1 ELSE 0)

C3_OnlyMissesSent ==
    /\ InPass =>
        IF NumMiss = 0
        THEN genArg = <<>> /\ parseArg = <<>> /\ nP = 0 /\ resps = <<>> /\ nA = 0
        ELSE genArg = <<MissSeq>> /\ parseArg = <<MissSeq>>
    /\ pc = "except" =>
        /\ genArg \in {<<>>, <<MissSeq>>}
        /\ parseArg \in {<<>>, <<MissSeq>>}
        /\ NumMiss = 0 => (genArg = <<>> /\ nP = 0 /\ resps = <<>>)
    /\ taskCalls <= 3 * BatchesWithMisses

C3_Witness ==
    /\ pc = "yield"
    /\ docs = <<"A", "B">>
    /\ cache0 = {"A"}
    /\ genArg = << <<"B">> >>
    /\ parseArg = << <<"B">> >>
    /\ nP = 1 /\ Len(resps) = 1

\* The misses of the finished batches of this call, as (batch, position).
LoggedMisses ==
    {<<b, j>> \in (1..Len(batchLog)) \X (1..MaxLen + 1) :
        /\ batchLog[b].ok
        /\ j <= Len(batchLog[b].docs)
        /\ ~batchLog[b].ic[j]}
Later(p, q) == p[1] < q[1] \/ (p[1] = q[1] /\ p[2] < q[2])
LoggedId(p) == batchLog[p[1]].docs[p[2]]
LoggedOut(p) == batchLog[p[1]].final[p[2]]
ProcessedOK == pc = "done" /\ handlerLog = <<>>

\* A call that re-reads the stream of the successful call before it makes no
\* task/backend call, never fails, and returns the cache's values.
RerunServedFromCache ==
    replay # <<>> =>
        /\ taskCalls = 0
        /\ failures = <<>>
        /\ pc \notin {"except", "raised"}
        /\ Len(out) <= Len(replay[1])
        /\ \A n \in 1..Len(out) : cacheVal[replay[1][n]] = <<out[n]>>
        /\ pc = "done" => Len(out) = Len(replay[1])

\* C4 as stated: after a successful call every miss is in the cache with its
\* own annotated value, and the same stream again is served from the cache.
C4_Original ==
    /\ ProcessedOK =>
        \A p \in LoggedMisses :
            /\ LoggedId(p) \in cacheKeys
            /\ cacheVal[LoggedId(p)] = <<Strip(LoggedOut(p))>>
    /\ RerunServedFromCache

\* C4 amended: after a successful call every miss is a member of the cache,
\* and the cache holds for its identity the annotated value of the last miss
\* with that identity (an earlier miss of the same identity is overwritten);
\* the same stream again, with any batch size, returns the cache's values
\* and makes no task/backend call.
C4_CachedAfterRun ==
    /\ ProcessedOK =>
        \A p \in LoggedMisses :
            /\ LoggedId(p) \in cacheKeys
            /\ cacheVal[LoggedId(p)] # <<>>
            /\ (\A q \in LoggedMisses : LoggedId(q) = LoggedId(p) => ~Later(p, q))
                   => cacheVal[LoggedId(p)] = <<Strip(LoggedOut(p))>>
    /\ RerunServedFromCache

C4_Witness ==
    /\ pc = "done"
    /\ replay # <<>>
    /\ Len(out) = 3
    /\ taskCalls = 0
    /\ \E n \in 1..Len(out) : out[n].ann # 0

\* C5: with save_io the k-th miss of a returned batch carries exactly one
\* record, holding the text of the k-th generated prompt and of the k-th
\* completion, which are the prompt of that very doc and the completion its
\* annotation was parsed from; a hit is returned as the cache holds it, with
\* no record written in this pass; without save_io no record is written.
C5_JournalPairing ==
    /\ (pc = "yield" /\ save_io) =>
        /\ savedK = NumMiss
        /\ \A j \in 1..Len(docs) :
            IF Hit(j)
            THEN cacheVal[docs[j]] = <<final_docs[j]>>
            ELSE LET m == MissRank(j)
                 IN  /\ m <= nP /\ m <= Len(resps)
                     /\ final_docs[j].io = <<[prompt |-> Str(Prompts[m]),
                                              response |-> Str(Responses[m])]>>
                     /\ Prompts[m] = Prompt(docs[j])
                     /\ Responses[m].to = Prompts[m]
                     /\ final_docs[j].ann = Responses[m].val
    /\ ~save_io =>
        /\ savedK = 0
        /\ \A j \in 1..Len(final_docs) :
            final_docs[j].io # <<>> => (Hit(j) /\ final_docs[j] = OldDoc(docs[j]))
        /\ \A n \in 1..Len(out) : out[n].io # <<>> => out[n] = OldDoc(out[n].id)

C5_Witness ==
    /\ pc = "yield"
    /\ save_io
    /\ Len(docs) = 3
    /\ ~Hit(1) /\ Hit(2) /\ ~Hit(3)
    /\ resps[1] # resps[2]
    /\ final_docs[3].io # <<>>

\* Concatenations over the finished batches of this call.
RECURSIVE OkFinals(_)
OkFinals(log) ==
    IF log = <<>> THEN <<>>
    ELSE (IF log[1].ok THEN log[1].final ELSE <<>>) \o OkFinals(Tail(log))
RECURSIVE OkDocs(_)
OkDocs(log) ==
    IF log = <<>> THEN <<>>
    ELSE (IF log[1].ok THEN log[1].docs ELSE <<>>) \o OkDocs(Tail(log))
RECURSIVE AllDocs(_)
AllDocs(log) == IF log = <<>> THEN <<>> ELSE log[1].docs \o AllDocs(Tail(log))
NumFailed == Cardinality({b \in 1..Len(batchLog) : ~batchLog[b].ok})
Pending == IF pc = "except" THEN 1 ELSE 0

\* C6: the output of pipe is the in-order concatenation of the complete
\* outputs of the batches that did not fail (plus the part of the running
\* batch already yielded); the batches are the consecutive batch_size slices
\* of the stream, and a failing batch adds nothing.
C6_BatchIsolation ==
    /\ out = OkFinals(batchLog) \o (IF pc = "yield" THEN Take(final_docs, y) ELSE <<>>)
    /\ Len(out) = Len(OkDocs(batchLog)) + (IF pc = "yield" THEN y ELSE 0)
    /\ \A n \in 1..Len(out) :
        out[n].id = (OkDocs(batchLog) \o docs)[n]
    /\ AllDocs(batchLog) \o docs = stream
    /\ \A b \in 1..Len(batchLog) :
        /\ Len(batchLog[b].docs) \in 1..batch_size
        /\ b < Len(batchLog) => Len(batchLog[b].docs) = batch_size
    /\ NumFailed + Pending = Len(failures)

C6_Witness ==
    /\ pc = "done"
    /\ Len(batchLog) = 3
    /\ batchLog[1].ok /\ ~batchLog[2].ok /\ batchLog[3].ok
    /\ Len(out) = 2

\* C7: the error handler has been invoked exactly once for every batch whose
\* processing raised (the one still on its way to the handler excepted), in
\* order, with the component name, the component, the items of that batch
\* and the exception raised; so never for a batch that succeeded.
C7_HandlerPerFailure ==
    /\ Len(handlerLog) = Len(failures) - Pending
    /\ Len(handlerLog) = NumFailed
    /\ \A n \in 1..Len(handlerLog) :
        /\ handlerLog[n].name = Name
        /\ handlerLog[n].comp = Self
        /\ handlerLog[n].batch = failures[n].batch
        /\ handlerLog[n].exc = failures[n].exc
    /\ pc = "except" => (exc = <<failures[Len(failures)].exc>>
                         /\ docs = failures[Len(failures)].batch)

C7_Witness ==
    /\ Len(batchLog) = 3
    /\ ~batchLog[1].ok /\ batchLog[2].ok /\ ~batchLog[3].ok
    /\ Len(handlerLog) = 2
    /\ handlerLog[1].exc # handlerLog[2].exc

\* C8: the handler decides.  While it runs nothing is yielded, pulled,
\* computed or cached.  If it returned, the call goes on by pulling the next
\* items of the stream (no retry, no re-yield of the failed batch); if it
\* raised, the call is over: the state is frozen until a new pipe call.
HandlerRaised == handlerLog # <<>> /\ handlerLog[Len(handlerLog)].reraised
Frozen ==
    /\ cacheKeys' = cacheKeys /\ cacheVal' = cacheVal
    /\ out' = out /\ stream' = stream /\ taskCalls' = taskCalls
C8_HandlerStep ==
    /\ pc = "except" =>
        /\ Frozen
        /\ pc' \in {"pull", "raised"}
        /\ docs' = <<>> /\ final_docs' = <<>>
    /\ (pc = "pull" /\ batchLog # <<>> /\ ~batchLog[Len(batchLog)].ok) =>
        /\ pc' \in {"process", "done"}
        /\ stream' = stream \o docs'
        /\ out' = out /\ cacheKeys' = cacheKeys /\ cacheVal' = cacheVal
        /\ taskCalls' = taskCalls
    /\ pc = "raised" =>
        /\ cacheKeys' = cacheKeys /\ cacheVal' = cacheVal
        /\ pc' = "pull" /\ out' = <<>> /\ stream' = <<>> /\ taskCalls' = 0
        /\ handlerLog' = <<>>
C8_HandlerDecides ==
    /\ [](HandlerRaised <=> pc = "raised")
    /\ [](\A n \in 1..(Len(handlerLog) - 1) : ~handlerLog[n].reraised)
    /\ [][C8_HandlerStep]_vars

C8_Witness ==
    /\ pc = "raised"
    /\ Len(batchLog) = 2
    /\ batchLog[1].ok /\ ~batchLog[2].ok
    /\ ~ended /\ Len(stream) < MaxLen
    /\ out # <<>>

\* C9: an item the cache reports present but cannot deliver stops
\* _process_docs with an AssertionError at its position: the pass never gets
\* beyond it and never returns, and the item is neither handed to the task
\* nor written to the cache.
Phantom(d) == d \in cache0 /\ cacheVal[d] = <<>>
C9_InconsistencyFails ==
    /\ pc = "yield" => \A j \in 1..Len(docs) : ~Phantom(docs[j])
    /\ pc \in {"loop", "add", "io"} => \A j \in 1..(i - 1) : ~Phantom(docs[j])
    /\ \A j \in 1..Len(docs) :
        Phantom(docs[j]) =>
            /\ \A m \in 1..Len(adds) : adds[m].id # docs[j]
            /\ \A g \in 1..Len(genArg) : \A m \in 1..Len(genArg[g]) : genArg[g][m] # docs[j]
            /\ \A g \in 1..Len(parseArg) :
                   \A m \in 1..Len(parseArg[g]) : parseArg[g][m] # docs[j]
    /\ (pc = "except" /\ exc = <<"AssertionError">>) =>
        /\ i <= Len(docs)
        /\ Phantom(docs[i])
        /\ Len(final_docs) = i - 1
        /\ lookups # <<>> /\ lookups[Len(lookups)] = i
    /\ \A n \in 1..Len(out) : cacheVal[out[n].id] # <<>>

C9_Witness ==
    /\ pc = "except"
    /\ exc = <<"AssertionError">>
    /\ i = 2
    /\ Len(adds) = 1
    /\ docs[1] \in cacheKeys

\* C10: a cache inconsistency is fatal for a streaming call as well: once it
\* has occurred in a batch of a pipe call, that call yields no output of a
\* later batch.
C10_FatalInStream ==
    (\E n \in 1..Len(failures) : failures[n].exc = "AssertionError") => pc # "yield"

\* C11: __call__ hands its doc to _process_docs as a batch of one; whatever
\* the task, the backend or the cache raises reaches the caller as it is:
\* the error handler is never invoked and nothing is returned.
C11_CallPropagates ==
    mode = "call" =>
        /\ Len(docs) = 1
        /\ handlerLog = <<>> /\ out = <<>>
        /\ pc \in {"process", "loop", "add", "io", "returned", "propagated"}
        /\ failures # <<>> =>
            /\ pc = "propagated"
            /\ Len(failures) = 1
            /\ exc = <<failures[1].exc>>
            /\ failures[1].batch = docs
        /\ pc = "propagated" => (failures # <<>> /\ ret = <<>>)
        /\ pc = "returned" =>
            /\ failures = <<>> /\ exc = <<>>
            /\ Len(final_docs) = 1
            /\ ret = <<final_docs[1]>>
            /\ ret[1].id = docs[1]
        /\ ret # <<>> => pc = "returned"

C11_Witness ==
    /\ mode = "call"
    /\ pc = "propagated"
    /\ exc = <<"BackendError">>
    /\ ret = <<>>

\* The items of the batches of this call that were handed to the handler.
RECURSIVE FailedDocs(_)
FailedDocs(log) ==
    IF log = <<>> THEN <<>>
    ELSE (IF log[1].ok THEN <<>> ELSE log[1].docs) \o FailedDocs(Tail(log))
InFlight == Len(stream) - Len(out) - Len(FailedDocs(batchLog))

\* C12: pipe keeps a single batch in flight.  The items pulled and neither
\* yielded nor dropped are the unyielded rest of the running batch, at most
\* batch_size; items are pulled from the stream, and the task or backend
\* works, only when everything of the earlier batches has been yielded or
\* handed to the handler.
C12_InFlightBound ==
    /\ InFlight \in 0..batch_size
    /\ InFlight = Len(docs) - (IF pc = "yield" THEN y ELSE 0)
    /\ pc \in {"idle", "pull", "done", "raised"} => InFlight = 0
C12_Step ==
    /\ (pc \notin {"idle", "done", "raised"} /\ stream' # stream) =>
        /\ pc = "pull" /\ InFlight = 0
        /\ Len(stream') - Len(stream) \in 1..batch_size
        /\ docs' = Drop(stream', Len(stream))
    /\ (pc \notin {"idle", "done", "raised"}
          /\ (taskCalls' > taskCalls \/ nP' > nP \/ Len(resps') > Len(resps) \/ nA' > nA)) =>
        /\ pc \in {"process", "loop"}
        /\ docs' = docs
        /\ Len(out) + Len(FailedDocs(batchLog)) = Len(stream) - Len(docs)
    /\ (pc \notin {"idle", "done", "raised"} /\ out' # out) =>
        /\ pc = "yield"
        /\ out' = Append(out, final_docs[y + 1])
        /\ stream' = stream /\ taskCalls' = taskCalls
C12_SingleBatchInFlight == []C12_InFlightBound /\ [][C12_Step]_vars

C12_Witness ==
    /\ pc = "loop"
    /\ batch_size = 1
    /\ Len(batchLog) = 2
    /\ ~batchLog[1].ok /\ batchLog[2].ok
    /\ nP = 1
    /\ InFlight = batch_size

\* C14: a batch is not cache-atomic.  At every point of a pass, also after
\* it has failed, the docs written to the cache in the pass are the annotated
\* first misses of the batch in miss order, one for each annotated doc pulled
\* so far, and the cache holds them; neither the failure nor the handler
\* takes them back, while the failed batch yields nothing.
LastAdd(m) == \A n \in (m + 1)..Len(adds) : adds[n].id # adds[m].id
C14_AddsArePrefix ==
    pc \in {"loop", "add", "io", "yield", "except"} =>
        /\ Len(adds) <= NumMiss
        /\ Len(adds) = (IF pc = "add" THEN k - 1 ELSE k)
        /\ \A m \in 1..Len(adds) :
            /\ m <= Len(resps) /\ m <= NumMiss
            /\ adds[m] = Parse(MissSeq[m], Response(Prompt(MissSeq[m]), resps[m]))
            /\ adds[m].id \in cacheKeys
            /\ LastAdd(m) => cacheVal[adds[m].id] = <<adds[m]>>
C14_FailureStep ==
    /\ pc' = "except" =>
        /\ cacheKeys' = cacheKeys /\ cacheVal' = cacheVal
        /\ adds' = adds /\ out' = out
    /\ pc = "except" =>
        /\ cacheKeys' = cacheKeys /\ cacheVal' = cacheVal
        /\ out' = out
C14_NotCacheAtomic == []C14_AddsArePrefix /\ [][C14_FailureStep]_vars

C14_Witness ==
    /\ pc = "pull"
    /\ Len(batchLog) = 1 /\ ~batchLog[1].ok
    /\ Len(batchLog[1].docs) = 3
    /\ out = <<>>
    /\ handlerLog[1].exc = "BackendError"
    /\ \E d \in Docs : d \in cacheKeys /\ cacheVal[d] # <<>> /\ cacheVal[d][1].ann # 0

\* C15: the hit/miss classification is a snapshot of the cache as it was
\* before the first write of the batch: a write made during reassembly never
\* turns a later item into a hit.  An identity absent at batch start that
\* occurs several times in the batch is sent to the task and written to the
\* cache once per occurrence, and the cache ends with the last one.
Occurrences(d) == {j \in 1..Len(docs) : docs[j] = d}
C15_SnapshotClassification ==
    /\ pc \in {"loop", "add", "io", "yield", "except"} =>
        /\ is_cached = [j \in 1..Len(docs) |-> Hit(j)]
        /\ noncached = MissSeq
        /\ \A j \in 1..Len(docs) : \A m \in 1..Len(adds) :
               (docs[j] = adds[m].id) => ~is_cached[j]
    /\ pc = "yield" =>
        \A d \in Docs \ cache0 :
            /\ Cardinality({m \in 1..Len(adds) : adds[m].id = d})
                   = Cardinality(Occurrences(d))
            /\ Occurrences(d) # {} =>
                /\ genArg # <<>>
                /\ Cardinality({m \in 1..Len(genArg[1]) : genArg[1][m] = d})
                       = Cardinality(Occurrences(d))
            /\ \A j \in Occurrences(d) :
                /\ j \notin {lookups[n] : n \in 1..Len(lookups)}
                /\ (\A q \in Occurrences(d) : q <= j) =>
                       cacheVal[d] = <<Strip(final_docs[j])>>

C15_Witness ==
    /\ pc = "yield"
    /\ docs = <<"A", "A">>
    /\ cache0 = {}
    /\ Len(adds) = 2
    /\ adds[1] # adds[2]
    /\ cacheVal["A"] = <<adds[2]>>

\* C16: with save_io, for every miss the annotated doc is pulled, then
\* written to the cache, then given its record, and only then is the next
\* one pulled.  The value handed to cache.add carries no record of this pass,
\* so the cache, which keeps the value as it is at add time, holds and later
\* serves the doc without that record.
C16_Order ==
    save_io =>
        /\ pc = "add" =>
            /\ k = Len(adds) + 1 /\ savedK = Len(adds)
            /\ cur # <<>> /\ cur[1].io = <<>>
            /\ Len(final_docs) = i - 1
        /\ pc = "io" =>
            /\ k = Len(adds) /\ savedK = k - 1
            /\ Len(final_docs) = i
            /\ final_docs[i] = cur[1] /\ adds[k] = cur[1]
            /\ cacheVal[cur[1].id] = <<cur[1]>>
        /\ pc \in {"loop", "yield"} => (k = Len(adds) /\ savedK = k)
        /\ \A m \in 1..Len(adds) : adds[m].io = <<>>
        /\ \A d \in Docs :
            cacheVal[d] # <<>> => (cacheVal[d][1].io = <<>> \/ cacheVal[d][1] = OldDoc(d))
        /\ pc = "yield" =>
            \A j \in 1..Len(docs) :
                IF Hit(j)
                THEN final_docs[j].ann # 0 => final_docs[j].io = <<>>
                ELSE final_docs[j].io # <<>> /\ cacheVal[docs[j]][1].io = <<>>
C16_Step ==
    save_io =>
        /\ k' = k + 1 => (pc = "loop" /\ pc' = "add" /\ cacheVal' = cacheVal
                          /\ final_docs' = final_docs)
        /\ pc = "add" =>
            /\ pc' = "io" /\ k' = k /\ savedK' = savedK
            /\ cacheVal' = [cacheVal EXCEPT ![cur[1].id] = <<cur[1]>>]
            /\ final_docs' = Append(final_docs, cur[1])
        /\ pc = "io" =>
            /\ pc' = "loop" /\ k' = k /\ savedK' = savedK + 1
            /\ cacheVal' = cacheVal /\ adds' = adds
            /\ final_docs'[i].io # <<>>
            /\ Strip(final_docs'[i]) = final_docs[i]
C16_RecordAfterCacheWrite == []C16_Order /\ [][C16_Step]_vars

C16_Witness ==
    /\ save_io
    /\ pc = "yield"
    /\ Len(batchLog) = 1 /\ batchLog[1].ok
    /\ batchLog[1].docs = <<"A">> /\ ~batchLog[1].ic[1]
    /\ batchLog[1].final[1].io # <<>>
    /\ docs = <<"A">> /\ Hit(1)
    /\ final_docs[1] = Strip(batchLog[1].final[1])
    /\ final_docs[1].io = <<>>

\* C17: with save_io the retained copies of the prompts and of the responses
\* are consumed in order, one of each per miss, in step with the annotated
\* docs; the prompts (responses) produced and not yet consumed for the record
\* never exceed the misses of the batch, and a batch that returns has consumed
\* as many of each as it has misses.  Without save_io nothing is retained.
BufferedPrompts == nP - savedK
BufferedResponses == Len(resps) - savedK
C17_State ==
    /\ (save_io /\ pc \in {"loop", "add", "io", "yield", "except"}) =>
        /\ BufferedPrompts \in 0..NumMiss
        /\ BufferedResponses \in 0..NumMiss
        /\ savedK = (IF pc \in {"add", "io"} THEN k - 1 ELSE k)
        /\ \A j \in 1..Len(final_docs) :
            (~Hit(j) /\ (j < i \/ pc = "yield")) =>
                /\ MissRank(j) <= savedK
                /\ final_docs[j].io = <<[prompt |-> Str(Prompts[MissRank(j)]),
                                         response |-> Str(Responses[MissRank(j)])]>>
        /\ pc = "yield" =>
            /\ savedK = NumMiss
            /\ BufferedPrompts = 0 /\ BufferedResponses = 0
    /\ ~save_io => savedK = 0
C17_Step ==
    savedK' # savedK =>
        \/ savedK' = savedK + 1 /\ pc = "io" /\ k' = k /\ savedK' = k
        \/ savedK' = 0 /\ pc \in {"yield", "except", "done", "raised"}
C17_RetainedInLockstep == []C17_State /\ [][C17_Step]_vars

C17_Witness ==
    /\ save_io /\ ~lazy
    /\ pc = "io"
    /\ NumMiss = 3
    /\ savedK = 0
    /\ BufferedPrompts = NumMiss /\ BufferedResponses = NumMiss

\* The batches the handler was given, one after the other.
RECURSIVE HandlerBatches(_)
HandlerBatches(log) ==
    IF log = <<>> THEN <<>> ELSE log[1].batch \o HandlerBatches(Tail(log))

\* C19: every item pulled from the stream is in exactly one batch; the
\* batches that returned are yielded item for item, those that failed are the
\* ones the handler was given, so when pipe is exhausted each input item is
\* either yielded once or part of one failing batch.  A call that re-reads a
\* given stream pulls exactly that stream.  A running call whose handler does
\* not raise reaches the end of the stream.
C19_Accounting ==
    /\ AllDocs(batchLog) \o docs = stream
    /\ \A b \in 1..Len(batchLog) :
        IF batchLog[b].ok
        THEN /\ Len(batchLog[b].final) = Len(batchLog[b].docs)
             /\ \A j \in 1..Len(batchLog[b].docs) :
                    batchLog[b].final[j].id = batchLog[b].docs[j]
        ELSE batchLog[b].final = <<>>
    /\ HandlerBatches(handlerLog) = FailedDocs(batchLog)
    /\ replay # <<>> => stream = Take(replay[1], Len(stream))
    /\ pc = "done" =>
        /\ docs = <<>> /\ ended
        /\ Len(out) = Len(OkDocs(batchLog))
        /\ \A n \in 1..Len(out) : out[n].id = OkDocs(batchLog)[n]
        /\ Len(out) + Len(HandlerBatches(handlerLog)) = Len(stream)
        /\ replay # <<>> => stream = replay[1]
C19_AccountedAndTerminates ==
    /\ []C19_Accounting
    /\ (pc = "pull") ~> (pc = "done" \/ HandlerRaised)

C19_Witness ==
    /\ pc = "done"
    /\ batch_size = 2
    /\ Len(stream) = 3
    /\ Len(batchLog) = 2
    /\ ~batchLog[1].ok /\ batchLog[2].ok
    /\ handlerLog[1].batch = Take(stream, 2)
    /\ Len(out) = 1 /\ out[1].id = stream[3]

\* What a round trip has to give for sub-component sub.
Loaded == ser # <<>> /\ ser[1].phase = "loaded"
Restorable(sc, sub) == sc.cap[sub] /\ sub \notin sc.E

\* C13 as stated: for every exclude set the round trip never errors, gives a
\* serializable sub-component that is not named in the set the state of the
\* serialized instance, and leaves every other sub-component as constructed.
C13_Original ==
    /\ ser # <<>> => ~ser[1].err
    /\ Loaded =>
        \A sub \in Subs :
            ser[1].dst[sub] = (IF Restorable(ser[1], sub) THEN ser[1].src[sub] ELSE Fresh)

\* C13 amended: the round trip, through bytes or through a directory, with
\* the same exclude set on both sides and sub-components of the same
\* capabilities, never errors.  A sub-component that is not Serializable or
\* is named in the set stays as constructed.  A Serializable one that is not
\* named gets the state of the serialized instance in every field the set
\* does not name; the set is handed on to the sub-component, so a field of
\* its own that the set names is restored only if the sub-component ignores
\* the set.  Name, cache and save_io of the restored instance are untouched.
C13_State ==
    /\ ser # <<>> => ~ser[1].err
    /\ (ser # <<>> /\ ser[1].phase = "dumped") =>
        /\ DOMAIN (IF ser[1].medium = "bytes" THEN Unpack(ser[1].store[1])
                                              ELSE ser[1].store[1])
               = {sub \in Subs : Restorable(ser[1], sub)}
        /\ \A sub \in Subs : ser[1].dst[sub] = Fresh
    /\ Loaded =>
        \A sub \in Subs : \A f \in Fields :
            ser[1].dst[sub][f] =
                (IF Restorable(ser[1], sub) /\ ~(ser[1].honors /\ f \in ser[1].E)
                 THEN ser[1].src[sub][f]
                 ELSE Fresh[f])
C13_Step == cacheKeys' = cacheKeys /\ cacheVal' = cacheVal /\ save_io' = save_io
C13_RoundTrip == []C13_State /\ [][C13_Step]_vars

C13_Witness ==
    /\ Loaded
    /\ ser[1].medium = "disk"
    /\ ser[1].E = {"backend", "examples"}
    /\ ser[1].cap = [task |-> TRUE, backend |-> TRUE]
    /\ ser[1].honors
    /\ ser[1].src["task"] = [cfg |-> 1, examples |-> 2]
    /\ ser[1].dst["task"] = [cfg |-> 1, examples |-> 0]
    /\ ser[1].dst["backend"] = Fresh

\* The misses of a logged batch, and what the task and backend deliver for it.
LoggedNumMiss(b) == Cardinality({j \in 1..Len(batchLog[b].ic) : ~batchLog[b].ic[j]})
Short(n) ==
    \/ AvailA(n) < n
    \/ save_io /\ (AvailP(n) < n \/ AvailR(n) < n)

\* C18: whatever number of prompts, responses and annotated docs the task
\* and backend deliver, a batch that returns has one output per input, at the
\* input's position.  If fewer annotated docs than misses are delivered (or,
\* with save_io, fewer prompts or responses), the batch does not return: it
\* ends with StopIteration at the first miss that cannot be served.  Surplus
\* items are never pulled.
C18_LengthPreserved ==
    /\ pc = "yield" =>
        /\ Len(final_docs) = Len(docs)
        /\ \A j \in 1..Len(docs) : j <= Len(final_docs) /\ final_docs[j].id = docs[j]
        /\ ~Short(NumMiss)
        /\ k = NumMiss
        /\ savedK = (IF save_io THEN NumMiss ELSE 0)
        /\ Len(adds) = NumMiss
    /\ pc \in {"loop", "add", "io"} =>
        /\ Len(final_docs) = (IF pc = "io" THEN i ELSE i - 1)
        /\ k <= NumMiss /\ k <= AvailA(NumMiss)
        /\ savedK <= k
    /\ (pc = "except" /\ exc = <<"StopIteration">>) =>
        /\ Short(NumMiss)
        /\ i <= Len(docs) /\ ~Hit(i)
        /\ \/ k = AvailA(NumMiss) /\ MissRank(i) = k + 1 /\ Len(final_docs) = i - 1
           \/ /\ save_io /\ MissRank(i) = k /\ savedK = k - 1
              /\ (k > AvailP(NumMiss) \/ k > AvailR(NumMiss))
    /\ \A b \in 1..Len(batchLog) :
        /\ batchLog[b].ok =>
            /\ Len(batchLog[b].final) = Len(batchLog[b].docs)
            /\ ~Short(LoggedNumMiss(b))
        /\ Short(LoggedNumMiss(b)) => ~batchLog[b].ok

C18_Witness ==
    /\ pc = "except"
    /\ exc = <<"StopIteration">>
    /\ contract = <<0, 0, -1>>
    /\ NumMiss = 2 /\ Len(docs) = 3
    /\ Len(adds) = 1
    /\ Len(final_docs) = 2

====
